---- MODULE Spec2Model ----
(***************************************************************************)
(* Product catalog backend (src/main.py): list / get / create / seed over   *)
(* the single "product" collection of a document store.                     *)
(*                                                                          *)
(* Representation                                                           *)
(*   str            a sequence of one-character strings (id strings), or a  *)
(*                  TLA+ string where only equality is ever used            *)
(*   ObjectId       a sequence of 12 bytes (0..255)                         *)
(*   dict           a function from field names to values                   *)
(*   Optional[x]    <<>> for None, <<x>> for a value                        *)
(*   float prices   integers (every price of the program is integral)       *)
(***************************************************************************)
EXTENDS Integers, Sequences, FiniteSets, TLC

VARIABLES
    dbAvail,    \* database.db is not None (fixed at import time)
    products,   \* the "product" collection, in natural (insertion) order
    nextId,     \* the store's identifier generator
    started,    \* the startup event has run, requests are being served
    resp,       \* the last request: [op, args, status, body, reads, writes]
    created,    \* history: <<payload, id string>> of every successful Create
    seeders,    \* concurrent seed handlers: per handler its locals and result
    sched       \* scheduling history of the concurrent handlers

vars == <<dbAvail, products, nextId, started, resp, created, seeders, sched>>

----------------------------------------------------------------------------
(* Bounds of the model *)

\* Create requests per run
MaxCreates == 2

\* context switches between concurrent seed handlers
MaxSwitches == 3

----------------------------------------------------------------------------
(* Python values *)

None == <<>>

Some(x) == <<x>>

EmptyDict == [k \in {} |-> TRUE]

\* Python truthiness of an Optional[str]: None and "" are falsy
Truthy(optstr) == optstr # None /\ optstr[1] # ""

----------------------------------------------------------------------------
(* bson.ObjectId: construction from a string, and str() *)

HexDigits == <<"0","1","2","3","4","5","6","7","8","9","a","b","c","d","e","f">>

HexUpper == <<"0","1","2","3","4","5","6","7","8","9","A","B","C","D","E","F">>

IsHexChar(c) == \E k \in 1..16 : HexDigits[k] = c \/ HexUpper[k] = c

HexVal(c) == (CHOOSE k \in 1..16 : HexDigits[k] = c \/ HexUpper[k] = c) - 1

OidStrLen == 24

\* ObjectId(s) raises InvalidId unless s is 24 hexadecimal characters
ObjectIdValid(s) == Len(s) = OidStrLen /\ \A i \in 1..Len(s) : IsHexChar(s[i])

\* ObjectId(s): bytes.fromhex(s)
ObjectId(s) == [i \in 1..(OidStrLen \div 2) |-> 16 * HexVal(s[2*i - 1]) + HexVal(s[2*i])]

\* str(oid): the lower-case hexadecimal rendering of the 12 bytes
Str(oid) ==
    [j \in 1..(2 * Len(oid)) |->
        IF j % 2 = 1 THEN HexDigits[(oid[(j + 1) \div 2] \div 16) + 1]
                     ELSE HexDigits[(oid[j \div 2] % 16) + 1]]

\* the n-th identifier the store generates
NewOid(n) ==
    [i \in 1..12 |-> IF i = 12 THEN n % 256 ELSE IF i = 11 THEN (n \div 256) % 256 ELSE 0]

----------------------------------------------------------------------------
(* serialize_product *)

serialize_product_keep_id(doc) ==
    IF doc = None \/ DOMAIN doc[1] = {} THEN EmptyDict
    ELSE LET d == doc[1] IN
         IF "_id" \in DOMAIN d
         THEN [k \in DOMAIN d \cup {"id"} |-> IF k = "id" THEN Str(d["_id"]) ELSE d[k]]
         ELSE d

serialize_product(doc) ==
    IF doc = None \/ DOMAIN doc[1] = {} THEN EmptyDict
    ELSE LET d == doc[1] IN
         IF "_id" \in DOMAIN d
         THEN [k \in (DOMAIN d \ {"_id"}) \cup {"id"} |->
                  IF k = "id" THEN Str(d["_id"]) ELSE d[k]]
         ELSE d

----------------------------------------------------------------------------
(* MOCK_PRODUCTS *)

MOCK_PRODUCTS == <<
    [title |-> "Minimalist Ceramic Mug",
     description |-> "Matte white ceramic mug with ergonomic handle.",
     price |-> 18, category |-> "Home", in_stock |-> TRUE,
     image |-> "https://images.unsplash.com/photo-1512496015851-a90fb38ba796?q=80&w=1200&auto=format&fit=crop"],
    [title |-> "Wireless Over-Ear Headphones",
     description |-> "Clean design, active noise cancellation, 30h battery.",
     price |-> 199, category |-> "Tech", in_stock |-> TRUE,
     image |-> "https://images.unsplash.com/photo-1518443895914-6d27f6a58a15?q=80&w=1200&auto=format&fit=crop"],
    [title |-> "Soft Cotton T-Shirt",
     description |-> "Premium 220gsm cotton, relaxed fit, off-white.",
     price |-> 28, category |-> "Apparel", in_stock |-> TRUE,
     image |-> "https://images.unsplash.com/photo-1520975682031-a700cf9f3160?q=80&w=1200&auto=format&fit=crop"],
    [title |-> "Hardcover Dot Grid Notebook",
     description |-> "A5 size, 160 pages, lays flat, recycled paper.",
     price |-> 22, category |-> "Office", in_stock |-> TRUE,
     image |-> "https://images.unsplash.com/photo-1531346680769-9d39828e36a5?q=80&w=1200&auto=format&fit=crop"],
    [title |-> "Minimal Desk Lamp",
     description |-> "Adjustable warm LEDs with touch dimming.",
     price |-> 79, category |-> "Home", in_stock |-> TRUE,
     image |-> "https://images.unsplash.com/photo-1493663284031-b7e3aefcae8e?q=80&w=1200&auto=format&fit=crop"],
    [title |-> "Leather Wallet",
     description |-> "Hand-stitched full-grain leather wallet with RFID blocking.",
     price |-> 49, category |-> "Accessories", in_stock |-> TRUE,
     image |-> "https://images.unsplash.com/photo-1545289414-1c3cb1c06238?q=80&w=1200&auto=format&fit=crop"],
    [title |-> "Insulated Water Bottle",
     description |-> "Keeps drinks cold for 24h, hot for 12h, powder-coated finish.",
     price |-> 32, category |-> "Outdoors", in_stock |-> TRUE,
     image |-> "https://images.unsplash.com/photo-1595433707802-6b2626ef1c86?q=80&w=1200&auto=format&fit=crop"],
    [title |-> "Portable Bluetooth Speaker",
     description |-> "Room-filling sound in a compact, splash-proof design.",
     price |-> 89, category |-> "Tech", in_stock |-> TRUE,
     image |-> "https://images.unsplash.com/photo-1519671482749-fd09be7ccebf?q=80&w=1200&auto=format&fit=crop"],
    [title |-> "Aromatherapy Candle",
     description |-> "Soy wax candle with sandalwood and citrus notes.",
     price |-> 24, category |-> "Home", in_stock |-> TRUE,
     image |-> "https://images.unsplash.com/photo-1519681393784-d120267933ba?q=80&w=1200&auto=format&fit=crop"],
    [title |-> "Canvas Tote Bag",
     description |-> "Heavy-duty 16oz canvas with inner pocket and zipper.",
     price |-> 35, category |-> "Accessories", in_stock |-> TRUE,
     image |-> "https://images.unsplash.com/photo-1618354691458-3f58f5c65b15?q=80&w=1200&auto=format&fit=crop"],
    [title |-> "Succulent Planter Set",
     description |-> "Set of 3 ceramic planters with drainage trays.",
     price |-> 27, category |-> "Home", in_stock |-> TRUE,
     image |-> "https://images.unsplash.com/photo-1501004318641-b39e6451bec6?q=80&w=1200&auto=format&fit=crop"],
    [title |-> "Stainless Chef Knife",
     description |-> "8-inch chef knife with balanced weight and ergonomic grip.",
     price |-> 59, category |-> "Kitchen", in_stock |-> TRUE,
     image |-> "https://images.unsplash.com/photo-1594387102886-0b0a9f62d7db?q=80&w=1200&auto=format&fit=crop"]
>>

NMock == Len(MOCK_PRODUCTS)

----------------------------------------------------------------------------
(* Storage access layer (module database) over one collection *)

Min(a, b) == IF a < b THEN a ELSE b

\* a document matches a filter when it carries every key of the filter with
\* an equal value
Matches(doc, filt) == \A k \in DOMAIN filt : k \in DOMAIN doc /\ doc[k] = filt[k]

\* db["product"].count_documents({})
count_documents(coll) == Len(coll)

\* db["product"].find_one({"_id": oid}): the first match, or None
find_one(coll, oid) ==
    IF \E i \in 1..Len(coll) : coll[i]["_id"] = oid
    THEN Some(coll[CHOOSE i \in 1..Len(coll) :
                     /\ coll[i]["_id"] = oid
                     /\ \A j \in 1..(i - 1) : coll[j]["_id"] # oid])
    ELSE None

\* create_document("product", data): one document persisted under a newly
\* assigned identifier, which is returned
create_document(coll, n, data) ==
    [coll |-> Append(coll, ("_id" :> NewOid(n)) @@ data), id |-> NewOid(n)]

\* get_documents("product", filt, limit): the matching documents in natural
\* order, capped at limit
get_documents(coll, filt, limit) ==
    LET Test(d) == Matches(d, filt)
        hits == SelectSeq(coll, Test)
    IN  SubSeq(hits, 1, Min(limit, Len(hits)))

----------------------------------------------------------------------------
(* Request handlers, as functions of the collection they run against *)

Unavailable == [status |-> 500, body |-> "Database not available", reads |-> 0, writes |-> 0]

ListFilter_NoStock(category) ==
    IF Truthy(category) THEN [category |-> category[1]] ELSE EmptyDict

ListFilter_NoCategory(category) == [in_stock |-> TRUE]

\* the filter of list_products
ListFilter(category) ==
    IF Truthy(category) THEN [in_stock |-> TRUE, category |-> category[1]]
    ELSE [in_stock |-> TRUE]

list_products(coll, category, limit) ==
    IF ~dbAvail THEN Unavailable
    ELSE LET docs == get_documents(coll, ListFilter(category), limit)
         IN  [status |-> 200,
              body   |-> [i \in 1..Len(docs) |-> serialize_product(Some(docs[i]))],
              reads  |-> 1, writes |-> 0]

get_product_lookup_first(coll, product_id) ==
    IF ~dbAvail THEN Unavailable
    ELSE IF ~ObjectIdValid(product_id)
    THEN [status |-> 404, body |-> "Product not found", reads |-> 1, writes |-> 0]
    ELSE LET doc == find_one(coll, ObjectId(product_id))
         IN  IF doc = None
             THEN [status |-> 404, body |-> "Product not found", reads |-> 1, writes |-> 0]
             ELSE [status |-> 200, body |-> serialize_product(doc), reads |-> 1, writes |-> 0]

get_product_validate_first(coll, product_id) ==
    IF ~ObjectIdValid(product_id)
    THEN [status |-> 400, body |-> "Invalid product id", reads |-> 0, writes |-> 0]
    ELSE IF ~dbAvail THEN Unavailable
    ELSE LET doc == find_one(coll, ObjectId(product_id))
         IN  IF doc = None
             THEN [status |-> 404, body |-> "Product not found", reads |-> 1, writes |-> 0]
             ELSE [status |-> 200, body |-> serialize_product(doc), reads |-> 1, writes |-> 0]

get_product_first_doc(coll, product_id) ==
    IF ~dbAvail THEN Unavailable
    ELSE IF ~ObjectIdValid(product_id)
    THEN [status |-> 400, body |-> "Invalid product id", reads |-> 0, writes |-> 0]
    ELSE IF coll = <<>>
         THEN [status |-> 404, body |-> "Product not found", reads |-> 1, writes |-> 0]
         ELSE [status |-> 200, body |-> serialize_product(Some(coll[1])),
               reads |-> 1, writes |-> 0]

get_product(coll, product_id) ==
    IF ~dbAvail THEN Unavailable
    ELSE IF ~ObjectIdValid(product_id)
    THEN [status |-> 400, body |-> "Invalid product id", reads |-> 0, writes |-> 0]
    ELSE LET doc == find_one(coll, ObjectId(product_id))
         IN  IF doc = None
             THEN [status |-> 404, body |-> "Product not found", reads |-> 1, writes |-> 0]
             ELSE [status |-> 200, body |-> serialize_product(doc), reads |-> 1, writes |-> 0]

create_product_reads_first(coll, n, product) ==
    IF ~dbAvail THEN [coll |-> coll, n |-> n, res |-> Unavailable]
    ELSE LET ins == create_document(coll, n, product)
             doc == Some(ins.coll[1])
         IN  [coll |-> ins.coll, n |-> n + 1,
              res  |-> [status |-> 201, body |-> serialize_product(doc),
                        reads |-> 1, writes |-> 1]]

create_product_overwrite(coll, n, product) ==
    IF ~dbAvail THEN [coll |-> coll, n |-> n, res |-> Unavailable]
    ELSE LET ins == create_document(SubSeq(coll, 1, Len(coll) - 1), n, product)
             doc == find_one(ins.coll, ins.id)
         IN  [coll |-> ins.coll, n |-> n + 1,
              res  |-> [status |-> 201, body |-> serialize_product(doc),
                        reads |-> 1, writes |-> 1]]

\* create_product: the result, and the collection it leaves
create_product(coll, n, product) ==
    IF ~dbAvail THEN [coll |-> coll, n |-> n, res |-> Unavailable]
    ELSE LET ins == create_document(coll, n, product)
             doc == find_one(ins.coll, ins.id)
         IN  [coll |-> ins.coll, n |-> n + 1,
              res  |-> [status |-> 201, body |-> serialize_product(doc),
                        reads |-> 1, writes |-> 1]]

\* the loop "for p in MOCK_PRODUCTS: create_document("product", p)", cut after
\* k iterations: the collection it leaves and the identifiers it collected
RECURSIVE SeedLoop(_, _, _)
SeedLoop(coll, n, k) ==
    IF k = 0 THEN [coll |-> coll, ids |-> <<>>]
    ELSE LET prev == SeedLoop(coll, n, k - 1)
             ins  == create_document(prev.coll, n + k - 1, MOCK_PRODUCTS[k])
         IN  [coll |-> ins.coll, ids |-> Append(prev.ids, ins.id)]

\* the response seed_products builds from the identifiers it inserted
SeedResponse(coll, ids) ==
    LET prods == [i \in 1..Len(ids) |-> serialize_product(find_one(coll, ids[i]))]
    IN  [seeded |-> TRUE, count |-> Len(prods), products |-> prods]

AlreadySeeded == [seeded |-> FALSE, message |-> "Products already exist"]

SeedGuard_Never(existing) == FALSE

\* the guard of seed_products: "if existing > 0: return"
SeedGuard(existing) == existing > 0

seed_products(coll, n) ==
    IF ~dbAvail THEN [coll |-> coll, n |-> n, res |-> Unavailable]
    ELSE LET existing == count_documents(coll) IN
         IF SeedGuard(existing)
         THEN [coll |-> coll, n |-> n,
               res  |-> [status |-> 200, body |-> AlreadySeeded, reads |-> 1, writes |-> 0]]
         ELSE LET loop == SeedLoop(coll, n, NMock)
              IN  [coll |-> loop.coll, n |-> n + NMock,
                   res  |-> [status |-> 200, body |-> SeedResponse(loop.coll, loop.ids),
                             reads |-> 1 + NMock, writes |-> NMock]]

\* startup_seed with the fault-th storage call raising (0: none raises; call
\* 1 is count_documents, call 1 + i the i-th insert); the exception is
\* swallowed and the inserts made before it stay
startup_seed(coll, n, fault) ==
    IF ~dbAvail THEN [coll |-> coll, n |-> n]
    ELSE IF fault = 1 THEN [coll |-> coll, n |-> n]
    ELSE LET count == count_documents(coll) IN
         IF count > 0 THEN [coll |-> coll, n |-> n]
         ELSE LET k == IF fault = 0 THEN NMock ELSE fault - 2
              IN  [coll |-> SeedLoop(coll, n, k).coll, n |-> n + k]

----------------------------------------------------------------------------
(* Inputs of the requests *)

\* list_products: "limit: int = 24"
DefaultLimit == 24

Chars(n, c) == [i \in 1..n |-> c]

Upper(s) ==
    [i \in 1..Len(s) |->
        IF \E k \in 1..16 : HexDigits[k] = s[i]
        THEN HexUpper[CHOOSE k \in 1..16 : HexDigits[k] = s[i]]
        ELSE s[i]]

CategoryInputs ==
    {None, Some(""), Some("Home"), Some("home"), Some("Toys")}

LimitInputs == {0, 1, DefaultLimit}

\* Product payloads that pass the schema validation
ProductInputs ==
    [title : {"X"}, description : {"d"}, price : {10},
     category : {"home", "Garden"}, in_stock : BOOLEAN, image : {"u"}]

\* identifiers the store hands out within the bounds, and one it never does
MaxOid == NMock + MaxCreates

AbsentOid == NewOid(200)

MalformedIds ==
    { <<>>,
      <<"n","o","t","-","a","n","-","i","d">>,
      Chars(OidStrLen - 1, "0"),
      Chars(OidStrLen + 1, "0"),
      Chars(OidStrLen - 1, "0") \o <<"g">> }

IdInputs ==
    {Str(NewOid(n)) : n \in {1, 10, NMock + 1, MaxOid}}
        \cup {Upper(Str(NewOid(10))), Str(AbsentOid)}
        \cup MalformedIds

----------------------------------------------------------------------------
(* Initial state: the process has imported its modules; the collection is empty *)

Requests == {"r1", "r2"}

Procs == Requests \cup {"startup"}

NoResponse == [op |-> "none", args |-> <<>>, status |-> 0, body |-> <<>>,
               reads |-> 0, writes |-> 0]

Response(op, args, res) ==
    [op |-> op, args |-> args, status |-> res.status, body |-> res.body,
     reads |-> res.reads, writes |-> res.writes]

Init ==
    /\ dbAvail \in BOOLEAN
    /\ products = <<>>
    /\ nextId = 1
    /\ started = FALSE
    /\ resp = NoResponse
    /\ created = <<>>
    /\ seeders = [p \in Procs |-> [pc |-> "start", k |-> 0, ids |-> <<>>, res |-> <<>>]]
    /\ sched = [last |-> "none", switches |-> 0]

----------------------------------------------------------------------------
(* Sequential service: the startup event, then one request at a time *)

StartupSeed(fault) ==
    /\ ~started
    /\ LET r == startup_seed(products, nextId, fault)
       IN  /\ products' = r.coll
           /\ nextId' = r.n
    /\ started' = TRUE
    /\ UNCHANGED <<dbAvail, resp, created, seeders, sched>>

ReadRoot ==
    /\ started
    /\ resp' = Response("root", <<>>,
                 [status |-> 200, body |-> [message |-> "Ecommerce Backend Running"],
                  reads |-> 0, writes |-> 0])
    /\ UNCHANGED <<dbAvail, products, nextId, started, created, seeders, sched>>

Hello ==
    /\ started
    /\ resp' = Response("hello", <<>>,
                 [status |-> 200, body |-> [message |-> "Hello from the backend API!"],
                  reads |-> 0, writes |-> 0])
    /\ UNCHANGED <<dbAvail, products, nextId, started, created, seeders, sched>>

\* test_database: listFails is list_collection_names() raising; urlSet and
\* nameSet are the two environment variables being set
test_database(coll, listFails, urlSet, nameSet) ==
    [backend |-> "Running",
     database |-> IF ~dbAvail THEN "Available but not initialized"
                  ELSE IF listFails THEN "Connected but Error"
                  ELSE "Connected & Working",
     connection_status |-> IF dbAvail THEN "Connected" ELSE "Not Connected",
     collections |-> IF dbAvail /\ ~listFails /\ coll # <<>> THEN <<"product">> ELSE <<>>,
     database_url |-> IF urlSet THEN "Set" ELSE "Not Set",
     database_name |-> IF nameSet THEN "Set" ELSE "Not Set"]

TestDatabase(listFails, urlSet, nameSet) ==
    /\ started
    /\ resp' = Response("test", <<>>,
                 [status |-> 200,
                  body |-> test_database(products, listFails, urlSet, nameSet),
                  reads |-> 0, writes |-> 0])
    /\ UNCHANGED <<dbAvail, products, nextId, started, created, seeders, sched>>

ListProducts(category, limit) ==
    /\ started
    /\ resp' = Response("list", <<category, limit>>,
                        list_products(products, category, limit))
    /\ UNCHANGED <<dbAvail, products, nextId, started, created, seeders, sched>>

GetProduct(product_id) ==
    /\ started
    /\ resp' = Response("get", <<product_id>>, get_product(products, product_id))
    /\ UNCHANGED <<dbAvail, products, nextId, started, created, seeders, sched>>

CreateProduct(product) ==
    /\ started
    /\ Len(created) < MaxCreates
    /\ LET r == create_product(products, nextId, product)
       IN  /\ products' = r.coll
           /\ nextId' = r.n
           /\ resp' = Response("create", <<product>>, r.res)
           /\ created' = IF r.res.status = 201
                         THEN Append(created, <<product, r.res.body["id"]>>)
                         ELSE created
    /\ UNCHANGED <<dbAvail, started, seeders, sched>>

SeedProducts ==
    /\ started
    /\ LET r == seed_products(products, nextId)
       IN  /\ products' = r.coll
           /\ nextId' = r.n
           /\ resp' = Response("seed", <<>>, r.res)
    /\ UNCHANGED <<dbAvail, started, created, seeders, sched>>

Next ==
    \/ \E fault \in 0..(NMock + 1) : StartupSeed(fault)
    \/ ReadRoot
    \/ Hello
    \/ \E listFails \in BOOLEAN, urlSet \in BOOLEAN, nameSet \in BOOLEAN :
           TestDatabase(listFails, urlSet, nameSet)
    \/ \E category \in CategoryInputs, limit \in LimitInputs :
           ListProducts(category, limit)
    \/ \E product_id \in IdInputs \cup {created[i][2] : i \in DOMAIN created} :
           GetProduct(product_id)
    \/ \E product \in ProductInputs : CreateProduct(product)
    \/ SeedProducts

Spec == Init /\ [][Next]_vars

----------------------------------------------------------------------------
(* Concurrent seeding: the seed requests and the startup seed of service      *)
(* processes that share the store, one storage call per step                  *)

\* p may take the next step: it is running already, or a context switch is left
MayRun(p) == sched.last \in {p, "none"} \/ sched.switches < MaxSwitches

Ran(p) ==
    [last |-> p,
     switches |-> IF sched.last \in {p, "none"} THEN sched.switches
                  ELSE sched.switches + 1]

\* seed_products up to its guard: the count, then return or enter the loop
SeedCount(p) ==
    /\ seeders[p].pc = "start"
    /\ MayRun(p)
    /\ seeders' = [seeders EXCEPT ![p] =
          IF ~dbAvail THEN [@ EXCEPT !.pc = "done", !.res = Some(Unavailable)]
          ELSE IF SeedGuard(count_documents(products))
          THEN [@ EXCEPT !.pc = "done",
                         !.res = Some([status |-> 200, body |-> AlreadySeeded,
                                       reads |-> 1, writes |-> 0])]
          ELSE [@ EXCEPT !.pc = "insert"]]
    /\ sched' = Ran(p)
    /\ UNCHANGED <<dbAvail, products, nextId, started, resp, created>>

\* one iteration of the insert loop of seed_products
SeedInsert(p) ==
    /\ seeders[p].pc = "insert"
    /\ seeders[p].k < NMock
    /\ MayRun(p)
    /\ LET ins == create_document(products, nextId, MOCK_PRODUCTS[seeders[p].k + 1])
       IN  /\ products' = ins.coll
           /\ nextId' = nextId + 1
           /\ seeders' = [seeders EXCEPT ![p].k = @ + 1, ![p].ids = Append(@, ins.id)]
    /\ sched' = Ran(p)
    /\ UNCHANGED <<dbAvail, started, resp, created>>

\* the re-reads and the response of seed_products
SeedReturn(p) ==
    /\ seeders[p].pc = "insert"
    /\ seeders[p].k = NMock
    /\ MayRun(p)
    /\ seeders' = [seeders EXCEPT ![p].pc = "done",
                      ![p].res = Some([status |-> 200,
                                       body |-> SeedResponse(products, seeders[p].ids),
                                       reads |-> 1 + NMock, writes |-> NMock])]
    /\ sched' = Ran(p)
    /\ UNCHANGED <<dbAvail, products, nextId, started, resp, created>>

\* startup_seed up to its guard
StartupCount ==
    /\ seeders["startup"].pc = "start"
    /\ MayRun("startup")
    /\ seeders' = [seeders EXCEPT !["startup"].pc =
          IF ~dbAvail THEN "done"
          ELSE LET count == count_documents(products)
               IN  IF count > 0 THEN "done" ELSE "insert"]
    /\ sched' = Ran("startup")
    /\ UNCHANGED <<dbAvail, products, nextId, started, resp, created>>

\* one iteration of the insert loop of startup_seed
StartupInsert ==
    /\ seeders["startup"].pc = "insert"
    /\ MayRun("startup")
    /\ LET k   == seeders["startup"].k
           ins == create_document(products, nextId, MOCK_PRODUCTS[k + 1])
       IN  /\ products' = ins.coll
           /\ nextId' = nextId + 1
           /\ seeders' = [seeders EXCEPT !["startup"].k = k + 1,
                             !["startup"].ids = Append(@, ins.id),
                             !["startup"].pc = IF k + 1 = NMock THEN "done" ELSE "insert"]
    /\ sched' = Ran("startup")
    /\ UNCHANGED <<dbAvail, started, resp, created>>

NextConc ==
    \/ \E p \in Requests : SeedCount(p)
    \/ \E p \in Requests : SeedInsert(p)
    \/ \E p \in Requests : SeedReturn(p)
    \/ StartupCount
    \/ StartupInsert

SpecConc == Init /\ [][NextConc]_vars

----------------------------------------------------------------------------
(* Properties *)

\* the fields of a stored document other than its identifier
Payload(d) == [k \in DOMAIN d \ {"_id"} |-> d[k]]

\* the external payload of stored document d, field by field
IsPayloadOf(body, d) ==
    /\ DOMAIN body = (DOMAIN d \ {"_id"}) \cup {"id"}
    /\ \A k \in DOMAIN d \ {"_id"} : body[k] = d[k]
    /\ Len(body["id"]) = OidStrLen
    /\ \A i \in 1..OidStrLen : \E h \in 1..16 : HexDigits[h] = body["id"][i]
    /\ ObjectId(body["id"]) = d["_id"]

\* id string s names stored document d (hexadecimal digits in either case)
Names(s, d) == Upper(s) = Upper(Str(d["_id"]))

WellFormedIds == {Upper(Str(NewOid(n))) : n \in 1..255} \cup {Str(NewOid(n)) : n \in 1..255}

\* C1: with storage available, a Seed request that finds at least one
\* document inserts nothing and answers seeded = false; one that finds the
\* collection empty inserts exactly the 12 documents of MOCK_PRODUCTS, in
\* order, and answers seeded = true with count = 12 (so a second Seed after a
\* successful one answers seeded = false and changes nothing).
C1_SeedContract ==
    [][(resp'.op = "seed" /\ dbAvail) =>
         /\ resp'.status = 200
         /\ IF Len(products) > 0
            THEN /\ products' = products
                 /\ resp'.body.seeded = FALSE
            ELSE /\ Len(products') = 12
                 /\ \A i \in 1..12 : Payload(products'[i]) = MOCK_PRODUCTS[i]
                 /\ resp'.body.seeded = TRUE
                 /\ resp'.body.count = 12
                 /\ Len(resp'.body.products) = 12]_vars

C1_Witness ==
    /\ resp.op = "seed"
    /\ resp.status = 200
    /\ resp.body.seeded = TRUE
    /\ Len(products) = 12

\* C2: with storage available, Get by id with a malformed id string answers
\* 400 having performed no read and no write, and leaves the collection
\* unchanged.
C2_MalformedIdRejected ==
    [][(resp'.op = "get" /\ dbAvail /\ resp'.args[1] \in MalformedIds) =>
         /\ resp'.status = 400
         /\ resp'.reads = 0
         /\ resp'.writes = 0
         /\ products' = products]_vars

C2_Witness ==
    /\ resp.op = "get"
    /\ resp.args[1] = <<"n","o","t","-","a","n","-","i","d">>
    /\ resp.status = 400
    /\ products # <<>>

\* C3: with storage available, Get by id with a well-formed id answers 404
\* exactly when no stored product has that identifier, and otherwise 200 with
\* the payload of the one product that has it; a malformed id never gets 404
\* and a well-formed id never gets 400.
C3_GetFoundOrNotFound ==
    (resp.op = "get" /\ dbAvail) =>
        LET s == resp.args[1]
            hits == {i \in 1..Len(products) : Names(s, products[i])}
        IN  /\ s \in MalformedIds => resp.status # 404
            /\ s \in WellFormedIds =>
                 /\ resp.status # 400
                 /\ resp.status = 404 <=> hits = {}
                 /\ resp.status # 404 =>
                      /\ resp.status = 200
                      /\ Cardinality(hits) = 1
                      /\ \A i \in hits : IsPayloadOf(resp.body, products[i])

C3_Witness ==
    /\ resp.op = "get"
    /\ resp.args[1] \in WellFormedIds
    /\ resp.status = 404
    /\ products # <<>>

\* C4: every item List returns has in_stock = true, and no stored product
\* with in_stock = false is in a List result.
C4_ListOnlyInStock ==
    (resp.op = "list" /\ resp.status = 200) =>
        \A i \in 1..Len(resp.body) :
            /\ resp.body[i]["in_stock"] = TRUE
            /\ \A j \in 1..Len(products) :
                 products[j]["in_stock"] = FALSE => ~Names(resp.body[i]["id"], products[j])

C4_Witness ==
    /\ resp.op = "list"
    /\ resp.args[1] = None
    /\ Len(resp.body) > 1
    /\ \E j \in 1..Len(products) : products[j]["in_stock"] = FALSE

\* C5 as claimed: for every category string c the client supplies, every
\* returned item has category c.
C5_EverySuppliedCategory ==
    (resp.op = "list" /\ dbAvail /\ resp.args[1] # None) =>
        /\ resp.status = 200
        /\ \A i \in 1..Len(resp.body) : resp.body[i]["category"] = resp.args[1][1]

\* C5, amended: for every non-empty category string c the client supplies,
\* every returned item has category exactly c, and the result is the empty
\* sequence (status 200) when no stored in-stock product has category c.
C5_NonEmptyCategory ==
    (resp.op = "list" /\ dbAvail /\ resp.args[1] # None /\ resp.args[1][1] # "") =>
        LET c == resp.args[1][1] IN
        /\ resp.status = 200
        /\ \A i \in 1..Len(resp.body) : resp.body[i]["category"] = c
        /\ (\A j \in 1..Len(products) :
               ~(products[j]["in_stock"] = TRUE /\ products[j]["category"] = c))
             => resp.body = <<>>

C5_Witness ==
    /\ resp.op = "list"
    /\ resp.args = <<Some("home"), DefaultLimit>>
    /\ Len(resp.body) > 0
    /\ \E j \in 1..Len(products) :
         products[j]["in_stock"] = TRUE /\ products[j]["category"] = "Home"

\* C6: the Create response is the submitted payload plus an id field, and a
\* later Get with the id a Create returned, whatever creates and seeds came in
\* between, answers 200 with that payload and that id.
C6_CreateThenGet ==
    /\ (resp.op = "create" /\ resp.status = 201) =>
          /\ DOMAIN resp.body = DOMAIN resp.args[1] \cup {"id"}
          /\ \A k \in DOMAIN resp.args[1] : resp.body[k] = resp.args[1][k]
          /\ resp.body["id"] \in WellFormedIds
    /\ resp.op = "get" =>
          \A i \in DOMAIN created :
              created[i][2] = resp.args[1] =>
                  /\ resp.status = 200
                  /\ DOMAIN resp.body = DOMAIN created[i][1] \cup {"id"}
                  /\ \A k \in DOMAIN created[i][1] : resp.body[k] = created[i][1][k]
                  /\ resp.body["id"] = created[i][2]

C6_Witness ==
    /\ resp.op = "get"
    /\ resp.status = 200
    /\ Len(created) >= 2
    /\ resp.args[1] = created[1][2]
    /\ Len(products) > 2

\* C7: when the storage connection was never established, List, Get by id
\* (also with a malformed id), Create and Seed all answer 500 without any
\* storage operation, and neither they nor the startup seed insert anything.
C7_UnavailableFailsFast ==
    ~dbAvail =>
        /\ products = <<>>
        /\ nextId = 1
        /\ resp.op \in {"list", "get", "create", "seed"} =>
              /\ resp.status = 500
              /\ resp.reads = 0
              /\ resp.writes = 0

C7_Witness ==
    /\ ~dbAvail
    /\ started
    /\ resp.op = "get"
    /\ resp.args[1] \in MalformedIds
    /\ resp.status = 500

C9_NeverUpdatedOrDeleted ==
    [][/\ Len(products') >= Len(products)
       /\ \A i \in 1..Len(products) : products'[i] = products[i]
       /\ (resp'.op \in {"list", "get", "test", "root", "hello"} \/ resp'.status >= 400)
             => products' = products
       /\ products' # products =>
             \/ /\ resp'.op = "create"
                /\ resp'.status = 201
                /\ Len(products') = Len(products) + 1
                /\ \A i \in 1..Len(products) :
                      products[i]["_id"] # products'[Len(products')]["_id"]
             \/ /\ resp'.op = "seed"
                /\ products = <<>>
             \/ /\ ~started
                /\ started'
                /\ products = <<>>]_vars

C9_Witness ==
    /\ resp.op = "create"
    /\ resp.status = 201
    /\ Len(products) > NMock + 1

\* C10: under any interleaving of concurrent Seed requests and the startup
\* seed, the collection never holds more than the 12 catalog documents and at
\* most one Seed request answers seeded = true.
C10_SeededAtMostOnce ==
    /\ Len(products) <= NMock
    /\ Cardinality({p \in Requests :
          /\ seeders[p].res # None
          /\ seeders[p].res[1].status = 200
          /\ seeders[p].res[1].body.seeded}) <= 1

====
